---- MODULE Spec2Model ----
(***************************************************************************)
(* A model of gfs.py: the grandfather-father-son rotation filter.          *)
(*                                                                         *)
(*   - SortedLimitedList / SortedLimitedSet : the bounded sorted           *)
(*     containers (specification SpecSL);                                  *)
(*   - _GFS.__init__ / GFS.__init__ / GFS.parse_keyword_cycles : engine    *)
(*     construction (specification SpecCtor), and _GFS.__eq__ on two       *)
(*     engines (specification SpecEq);                                     *)
(*   - _GFS._gfs / _GFS.gfs_filter / _GFS._gfs_cycle / GFS._gfs : one      *)
(*     filtering call, stepped send by send (specification Spec), a batch  *)
(*     filtered in two orders (SpecPerm), and an engine constructed and    *)
(*     then called again and again (SpecLife).                             *)
(*                                                                         *)
(* Python values are represented as follows.                               *)
(*   None            the empty tuple <<>>; an optional value x is <<x>>.   *)
(*   datetime        the number YYYYMMDDHH (minutes and seconds are 0 in   *)
(*                   every timestamp used); datetime comparison is the     *)
(*                   lexicographic order of the fields, which is the order *)
(*                   of these numbers.                                     *)
(*   a key string    format(date, "%Y-%m-%d") and the like are fixed-width *)
(*                   zero-padded decimal fields joined by "-"; such        *)
(*                   strings order as the number made of their digits,     *)
(*                   which is how a key is represented.                    *)
(*   a date string   a record [stamp, sep, padded]: the digits, the        *)
(*                   character between date and time, and whether the      *)
(*                   fields are zero-padded.                               *)
(***************************************************************************)
EXTENDS Integers, Sequences, FiniteSets, TLC

\* ------------------------------------------------------------------------
\* Bounds of the model
\* ------------------------------------------------------------------------
MaxSize == 3        \* largest max_size of a container under test
MaxValue == 3       \* container values are 0 .. MaxValue
MaxBatch == 2       \* longest initial iterable given to a container
MaxInserts == 2     \* insert calls made after construction
MaxCap == 2         \* largest capacity given for a cycle
MaxKw == 2          \* most keyword cycles in one GFS(...) call
MaxMap == 2         \* most entries of a cycles mapping in a constructor call
MaxDates == 3       \* longest batch of dates given to one filtering call
MaxPermDates == 3   \* longest batch of a caller that filters it in two orders
MaxLifeDates == 2   \* longest batch of a caller that builds an engine and filters
                    \* batch after batch

VARIABLES
    sl,         \* the container: [cls, max_size, key, list, keys]
    slargs,     \* the arguments of the pending constructor call
    slpc,       \* "new" before __init__ has run, "ready" after
    inserted    \* every value handed to insert so far, in order

VARIABLES
    cargs,      \* the arguments of the constructor call: [cls, date_format, cycles, kwargs]
    cpc,        \* "new": call pending; "built": it returned; "failed": it raised
    engine,     \* the engine the call returned: None or Some([cls, fmt, policies])
    raised,     \* the exception that ended the call: None or Some(error)
    prev,       \* the class of the exception of the caller's previous failed attempt
    kept,       \* an engine the caller built earlier and kept, with the arguments
                \* it was built from: None or Some([obj, cargs])
    cmp         \* the result of `engine == kept`: None or Some(boolean)

VARIABLES
    pc,         \* where the filtering call is: "idle", "ready" (about to be made),
                \* "feeding", "selected" (_gfs has returned), "returned", "raised"
    dates,      \* the batch given to the call: datetimes for _GFS, date strings for GFS
    pos,        \* how many items of the batch the loop `for date in dates` has taken
    cur,        \* the datetime being sent to the coroutines: None or Some(date)
    nsent,      \* how many coroutines have received cur
    coroutines, \* the coroutines of the call (`cycles` in _gfs): a dict
                \* cycle -> the cycle_set of its coroutine
    selected,   \* what _gfs returned: None or Some(dict cycle -> list)
    filtered,   \* what gfs_filter returned: None or Some(set)
    prevcall,   \* the caller's record of its previous call: None or
                \* Some([dates, selected, filtered])
    sent        \* for each coroutine of the call, in the order of `cycles`, the
                \* dates it has received through send, in order

slvars == <<sl, slargs, slpc, inserted>>

ctorvars == <<cargs, cpc, engine, prev, kept, cmp>>

callvars == <<pc, dates, pos, cur, nsent, coroutines, selected, filtered, prevcall, sent>>

vars == <<sl, slargs, slpc, inserted, cargs, cpc, engine, raised, prev, kept, cmp,
          pc, dates, pos, cur, nsent, coroutines, selected, filtered, prevcall, sent>>

\* ------------------------------------------------------------------------
\* Python helpers
\* ------------------------------------------------------------------------
None == <<>>

Some(x) == <<x>>

Range(f) == {f[i] : i \in DOMAIN f}

\* list.insert(idx, x) with 0 <= idx <= len(list)
ListInsert(l, idx, x) == SubSeq(l, 1, idx) \o <<x>> \o SubSeq(l, idx + 1, Len(l))

\* del list[0]
ListDelHead(l) == Tail(l)

\* bisect.bisect (bisect_right): binary search between lo and hi for the
\* insertion point of x after any entries equal to x.
RECURSIVE bisect_from(_, _, _, _)
bisect_from(a, x, lo, hi) ==
    IF lo < hi
    THEN LET mid == (lo + hi) \div 2
         IN  IF x < a[mid + 1]
             THEN bisect_from(a, x, lo, mid)
             ELSE bisect_from(a, x, mid + 1, hi)
    ELSE lo

bisect(a, x) == bisect_from(a, x, 0, Len(a))

\* ------------------------------------------------------------------------
\* datetime: the fields of a timestamp YYYYMMDDHH and the calendar
\* ------------------------------------------------------------------------
Year(t) == t \div 1000000

Month(t) == (t \div 10000) % 100

Day(t) == (t \div 100) % 100

Hour(t) == t % 100

IsLeap(y) == (y % 4 = 0 /\ y % 100 # 0) \/ y % 400 = 0

DaysInMonth(y, m) ==
    CASE m = 2                -> IF IsLeap(y) THEN 29 ELSE 28
      [] m \in {4, 6, 9, 11}  -> 30
      [] OTHER                -> 31

RECURSIVE DaysBeforeMonth(_, _)
DaysBeforeMonth(y, m) ==
    IF m = 1 THEN 0 ELSE DaysBeforeMonth(y, m - 1) + DaysInMonth(y, m - 1)

\* day of the year, 1 January = 1
YDay(t) == DaysBeforeMonth(Year(t), Month(t)) + Day(t)

DaysBeforeYear(y) ==
    LET p == y - 1 IN p * 365 + p \div 4 - p \div 100 + p \div 400

\* datetime.weekday(): Monday = 0
Weekday(t) == (DaysBeforeYear(Year(t)) + YDay(t) + 6) % 7

\* %W: week of the year, weeks starting on Monday, the days before the
\* first Monday in week 0
WeekOfYear(t) == (YDay(t) + 6 - Weekday(t)) \div 7

\* format(date, fmt) for the key formats: the digits of the formatted string
Strftime(date, fmt) ==
    CASE fmt = "%Y-%m-%d" -> date \div 100
      [] fmt = "%Y-%W"    -> Year(date) * 100 + WeekOfYear(date)
      [] fmt = "%Y-%m"    -> date \div 10000
      [] fmt = "%Y"       -> Year(date)
      [] fmt = "%d"       -> Day(date)

\* ------------------------------------------------------------------------
\* Cycle
\* ------------------------------------------------------------------------
Cycle(name, datetime_fmt_key) == [name |-> name, key_fmt |-> datetime_fmt_key]

Cycle_str(cycle) == cycle.name

\* Cycle.__eq__ (every cycle of the model is an instance of Cycle)
Cycle_eq(self, other) == self.name = other.name /\ self.key_fmt = other.key_fmt

Cycle_key(cycle, date) == Strftime(date, cycle.key_fmt)

DAILY == Cycle("daily", "%Y-%m-%d")

WEEKLY == Cycle("weekly", "%Y-%W")

MONTHLY == Cycle("monthly", "%Y-%m")

YEARLY == Cycle("yearly", "%Y")

\* a custom cycle whose key does not follow the order of the timestamps
DAY_OF_MONTH == Cycle("day-of-month", "%d")

\* ------------------------------------------------------------------------
\* Key functions of the containers under test.  A key function is a record
\* [fn |-> name]; the engine's key function, the bound method cycle.key, is
\* [fn |-> "cycle", cycle |-> cycle].
\* ------------------------------------------------------------------------
LambdaKeys == {"identity", "neg", "half", "mod2"}

ApplyLambda(fn, v) ==
    CASE fn = "identity" -> v             \* lambda v: v  (the default)
      [] fn = "neg"      -> 0 - v         \* lambda v: -v (the doctests)
      [] fn = "half"     -> v \div 2      \* monotone, not injective
      [] fn = "mod2"     -> v % 2         \* neither monotone nor injective

ApplyKey(key, v) ==
    IF key.fn = "cycle" THEN Cycle_key(key.cycle, v) ELSE ApplyLambda(key.fn, v)

\* ------------------------------------------------------------------------
\* SortedLimitedList
\* ------------------------------------------------------------------------

\* `a or b` for an optional integer a: None and 0 are falsy.
OrElse(opt, dflt) == IF opt = None \/ opt = Some(0) THEN dflt ELSE opt[1]

\* Mutant: the extraneous head element is never removed.
SortedLimitedList_insert_NoEvict(self, value, _key, _index) ==
    LET key == OrElse(_key, ApplyKey(self.key, value))
        idx == OrElse(_index, bisect(self.keys, key))
    IN  IF idx # 0 \/ Len(self.keys) < self.max_size
        THEN [self EXCEPT !.keys = ListInsert(self.keys, idx, key),
                          !.list = ListInsert(self.list, idx, value)]
        ELSE self

\* Mutant: the extraneous element is removed at the tail, not at the head.
SortedLimitedList_insert_EvictLast(self, value, _key, _index) ==
    LET key == OrElse(_key, ApplyKey(self.key, value))
        idx == OrElse(_index, bisect(self.keys, key))
    IN  IF idx # 0 \/ Len(self.keys) < self.max_size
        THEN LET keys1 == ListInsert(self.keys, idx, key)
                 list1 == ListInsert(self.list, idx, value)
             IN  IF Len(keys1) > self.max_size
                 THEN [self EXCEPT !.keys = SubSeq(keys1, 1, Len(keys1) - 1),
                                   !.list = SubSeq(list1, 1, Len(list1) - 1)]
                 ELSE [self EXCEPT !.keys = keys1, !.list = list1]
        ELSE self

\* Mutant: at maximum size an element for the head takes the head's place.
SortedLimitedList_insert_ReplaceHead(self, value, _key, _index) ==
    LET key == OrElse(_key, ApplyKey(self.key, value))
        idx == OrElse(_index, bisect(self.keys, key))
        keys1 == ListInsert(self.keys, idx, key)
        list1 == ListInsert(self.list, idx, value)
    IN  IF idx # 0 \/ Len(self.keys) < self.max_size
        THEN IF Len(keys1) > self.max_size
             THEN [self EXCEPT !.keys = ListDelHead(keys1),
                               !.list = ListDelHead(list1)]
             ELSE [self EXCEPT !.keys = keys1, !.list = list1]
        ELSE [self EXCEPT !.keys = <<key>> \o ListDelHead(self.keys),
                          !.list = <<value>> \o ListDelHead(self.list)]

SortedLimitedList_insert(self, value, _key, _index) ==
    LET key == OrElse(_key, ApplyKey(self.key, value))
        idx == OrElse(_index, bisect(self.keys, key))
    IN  IF idx # 0 \/ Len(self.keys) < self.max_size
        THEN LET keys1 == ListInsert(self.keys, idx, key)
                 list1 == ListInsert(self.list, idx, value)
             IN  IF Len(keys1) > self.max_size
                 THEN [self EXCEPT !.keys = ListDelHead(keys1),
                                   !.list = ListDelHead(list1)]
                 ELSE [self EXCEPT !.keys = keys1, !.list = list1]
        ELSE self

\* ------------------------------------------------------------------------
\* SortedLimitedSet
\* ------------------------------------------------------------------------
\* Mutant: on a key collision the kept value always stays.
SortedLimitedSet_insert_NeverReplace(self, value) ==
    LET key == ApplyKey(self.key, value)
        idx == bisect(self.keys, key)
        ex_key == IF idx > 0 THEN Some(self.keys[idx]) ELSE None
    IN  IF ex_key # None /\ ex_key = Some(key)
        THEN self
        ELSE SortedLimitedList_insert(self, value, Some(key), Some(idx))

\* Mutant: on a key collision the new value always replaces the kept one.
SortedLimitedSet_insert_AlwaysReplace(self, value) ==
    LET key == ApplyKey(self.key, value)
        idx == bisect(self.keys, key)
        ex_key == IF idx > 0 THEN Some(self.keys[idx]) ELSE None
    IN  IF ex_key # None /\ ex_key = Some(key)
        THEN [self EXCEPT !.list[idx] = value]
        ELSE SortedLimitedList_insert(self, value, Some(key), Some(idx))

\* Mutant: on a key collision the smaller value is kept.
SortedLimitedSet_insert_KeepSmaller(self, value) ==
    LET key == ApplyKey(self.key, value)
        idx == bisect(self.keys, key)
        ex_key == IF idx > 0 THEN Some(self.keys[idx]) ELSE None
    IN  IF ex_key # None /\ ex_key = Some(key)
        THEN IF value <= self.list[idx]
             THEN [self EXCEPT !.list[idx] = value]
             ELSE self
        ELSE SortedLimitedList_insert(self, value, Some(key), Some(idx))

\* Mutant: no look for a key collision, the value goes in like into a list.
SortedLimitedSet_insert_NoCollisionCheck(self, value) ==
    SortedLimitedList_insert(self, value, None, None)

SortedLimitedSet_insert(self, value) ==
    LET key == ApplyKey(self.key, value)
        idx == bisect(self.keys, key)
        ex_key == IF idx > 0 THEN Some(self.keys[idx]) ELSE None
    IN  IF ex_key # None /\ ex_key = Some(key)
        THEN IF value >= self.list[idx]
             THEN [self EXCEPT !.list[idx] = value]
             ELSE self
        ELSE SortedLimitedList_insert(self, value, Some(key), Some(idx))

\* self.insert(elem): the method of the object's class.
Insert(self, value) ==
    IF self.cls = "SortedLimitedSet"
    THEN SortedLimitedSet_insert(self, value)
    ELSE SortedLimitedList_insert(self, value, None, None)

RECURSIVE InsertAll(_, _)
InsertAll(self, iterable) ==
    IF iterable = <<>>
    THEN self
    ELSE InsertAll(Insert(self, Head(iterable)), Tail(iterable))

\* SortedLimitedList.__init__ (inherited by SortedLimitedSet); key is an
\* optional key function.
SortedLimitedList_init(cls, max_size, iterable, key) ==
    LET self == [cls |-> cls,
                 max_size |-> max_size,
                 key |-> IF key # None THEN key[1] ELSE [fn |-> "identity"],
                 list |-> <<>>,
                 keys |-> <<>>]
    IN  IF iterable # None /\ iterable[1] # <<>>
        THEN InsertAll(self, iterable[1])
        ELSE self

\* __iter__: the values, in list order
Iter(self) == self.list

NoObject == [cls |-> "none", max_size |-> 0, key |-> [fn |-> "identity"],
             list |-> <<>>, keys |-> <<>>]

NoArgs == [cls |-> "none", max_size |-> 0, iterable |-> None, key |-> None]

\* ------------------------------------------------------------------------
\* Exceptions.  An exception is a record: its class, the fixed text of its
\* message, and what the message interpolates (a name, a number, a raw date
\* string, the message of the exception it wraps).
\* ------------------------------------------------------------------------
Error(class, text, name, value, raw, cause) ==
    [class |-> class, text |-> text, name |-> name, value |-> value,
     raw |-> raw, cause |-> cause]

\* ------------------------------------------------------------------------
\* dict: an insertion-ordered sequence of <<key, value>> pairs, keys distinct
\* ------------------------------------------------------------------------
DictKeys(dct) == {dct[i][1] : i \in DOMAIN dct}

DictGet(dct, k) == dct[CHOOSE i \in DOMAIN dct : dct[i][1] = k][2]

\* d[k] = v: a present key keeps its place and takes the new value
DictSet(dct, k, v) ==
    IF k \in DictKeys(dct)
    THEN [i \in DOMAIN dct |-> IF dct[i][1] = k THEN <<k, v>> ELSE dct[i]]
    ELSE Append(dct, <<k, v>>)

\* dict.__eq__ of dicts keyed by cycles: as many items, and every key of the
\* one is a key of the other, equal by Cycle.__eq__, with an equal value
DictEq(d1, d2) ==
    /\ Len(d1) = Len(d2)
    /\ \A i \in DOMAIN d1 :
         \E j \in DOMAIN d2 : Cycle_eq(d1[i][1], d2[j][1]) /\ d1[i][2] = d2[j][2]

\* ------------------------------------------------------------------------
\* _GFS.__init__
\* ------------------------------------------------------------------------
Raise(e, policies) == [raised |-> Some(e), policies |-> policies]

Return(policies) == [raised |-> None, policies |-> policies]

\* Mutant: a capacity below 1 is reported like an empty policy.
RECURSIVE GFS0_init_loop_RuntimeError(_, _)
GFS0_init_loop_RuntimeError(items, policies) ==
    IF items = <<>>
    THEN IF policies = <<>>
         THEN Raise(Error("RuntimeError", "GFS with no policy cycles",
                          None, None, None, None), policies)
         ELSE Return(policies)
    ELSE LET cycle == Head(items)[1]
             value == Head(items)[2]
         IN  IF value < 1
             THEN Raise(Error("RuntimeError",
                              "Policies only accept a positive value of cycles, {value} given for {cycle}",
                              Some(Cycle_str(cycle)), Some(value), None, None),
                        policies)
             ELSE GFS0_init_loop_RuntimeError(Tail(items), DictSet(policies, cycle, value))

\* Mutant: only a negative capacity is turned away.
RECURSIVE GFS0_init_loop_AcceptZero(_, _)
GFS0_init_loop_AcceptZero(items, policies) ==
    IF items = <<>>
    THEN IF policies = <<>>
         THEN Raise(Error("RuntimeError", "GFS with no policy cycles",
                          None, None, None, None), policies)
         ELSE Return(policies)
    ELSE LET cycle == Head(items)[1]
             value == Head(items)[2]
         IN  IF value < 0
             THEN Raise(Error("ValueError",
                              "Policies only accept a positive value of cycles, {value} given for {cycle}",
                              Some(Cycle_str(cycle)), Some(value), None, None),
                        policies)
             ELSE GFS0_init_loop_AcceptZero(Tail(items), DictSet(policies, cycle, value))

\* the loop over cycles.items(), from the first item still to visit
RECURSIVE GFS0_init_loop(_, _)
GFS0_init_loop(items, policies) ==
    IF items = <<>>
    THEN IF policies = <<>>
         THEN Raise(Error("RuntimeError", "GFS with no policy cycles",
                          None, None, None, None), policies)
         ELSE Return(policies)
    ELSE LET cycle == Head(items)[1]
             value == Head(items)[2]
         IN  IF value < 1
             THEN Raise(Error("ValueError",
                              "Policies only accept a positive value of cycles, {value} given for {cycle}",
                              Some(Cycle_str(cycle)), Some(value), None, None),
                        policies)
             ELSE GFS0_init_loop(Tail(items), DictSet(policies, cycle, value))

\* cycles is an optional mapping; None has no items()
GFS0_init(cycles) ==
    IF cycles = None
    THEN Raise(Error("AttributeError",
                     "'NoneType' object has no attribute 'items'",
                     None, None, None, None), <<>>)
    ELSE GFS0_init_loop(cycles[1], <<>>)

\* Mutant: engines with the same cycles are equal, whatever the capacities.
GFS0_eq_CyclesOnly(self, other) ==
    IF self.cls # other.cls
    THEN FALSE
    ELSE DictKeys(self.policies) = DictKeys(other.policies)

\* _GFS.__eq__ (inherited by GFS)
GFS0_eq(self, other) ==
    IF self.cls # other.cls
    THEN FALSE
    ELSE DictEq(self.policies, other.policies)

\* ------------------------------------------------------------------------
\* GFS: keyword cycles
\* ------------------------------------------------------------------------
KEYWORD_CYCLES ==
    [arg \in {"daily", "day", "weekly", "week", "monthly", "month", "yearly", "year"} |->
        CASE arg \in {"daily", "day"}     -> DAILY
          [] arg \in {"weekly", "week"}   -> WEEKLY
          [] arg \in {"monthly", "month"} -> MONTHLY
          [] arg \in {"yearly", "year"}   -> YEARLY]

\* the keyword names a call may use, and str.lower on them
KwNames == {"daily", "Day", "weekly", "Fortnightly"}

Lower(kwarg) ==
    CASE kwarg = "Day"         -> "day"
      [] kwarg = "WEEK"        -> "week"
      [] kwarg = "Yearly"      -> "yearly"
      [] kwarg = "Fortnightly" -> "fortnightly"
      [] OTHER                 -> kwarg

\* Mutant: a keyword that names no cycle is skipped.
RECURSIVE GFS_parse_keyword_cycles_loop_Skip(_, _)
GFS_parse_keyword_cycles_loop_Skip(kwargs, cycles) ==
    IF kwargs = <<>>
    THEN [raised |-> None, cycles |-> cycles]
    ELSE LET kwarg == Head(kwargs)[1]
             value == Head(kwargs)[2]
             arg == Lower(kwarg)
         IN  IF arg \in DOMAIN KEYWORD_CYCLES
             THEN GFS_parse_keyword_cycles_loop_Skip(
                      Tail(kwargs), DictSet(cycles, KEYWORD_CYCLES[arg], value))
             ELSE GFS_parse_keyword_cycles_loop_Skip(Tail(kwargs), cycles)

\* the loop over kwargs.items(), from the first item still to visit
RECURSIVE GFS_parse_keyword_cycles_loop(_, _)
GFS_parse_keyword_cycles_loop(kwargs, cycles) ==
    IF kwargs = <<>>
    THEN [raised |-> None, cycles |-> cycles]
    ELSE LET kwarg == Head(kwargs)[1]
             value == Head(kwargs)[2]
             arg == Lower(kwarg)
         IN  IF arg \in DOMAIN KEYWORD_CYCLES
             THEN GFS_parse_keyword_cycles_loop(
                      Tail(kwargs), DictSet(cycles, KEYWORD_CYCLES[arg], value))
             ELSE [raised |-> Some(Error("NotImplementedError",
                                         "Policy not available: {kwarg}.",
                                         Some(kwarg), None, None, None)),
                   cycles |-> cycles]

GFS_parse_keyword_cycles(kwargs) == GFS_parse_keyword_cycles_loop(kwargs, <<>>)

\* GFS.__init__: the outcome [raised, policies]
GFS_init(date_format, cycles, kwargs) ==
    IF cycles = None /\ kwargs # <<>>
    THEN LET parsed == GFS_parse_keyword_cycles(kwargs)
         IN  IF parsed.raised # None
             THEN [raised |-> parsed.raised, policies |-> <<>>]
             ELSE GFS0_init(Some(parsed.cycles))
    ELSE GFS0_init(cycles)

\* ------------------------------------------------------------------------
\* Specification SpecCtor: a caller constructs engines, one call after
\* another
\* ------------------------------------------------------------------------
DATE_FORMAT == "%Y-%m-%dT%H:%M:%S"

\* injective sequences over S of length at most n
RECURSIVE DistinctSeqs(_, _)
DistinctSeqs(S, n) ==
    IF n = 0
    THEN {<<>>}
    ELSE LET shorter == DistinctSeqs(S, n - 1)
         IN  shorter \cup
             {Append(q, x) : <<q, x>> \in
                 {<<q, x>> \in shorter \X S : x \notin Range(q)}}

CapValues == 0 .. MaxCap

\* every assignment of values from V to the positions of a key sequence
WithValues(ks, V) ==
    {[i \in DOMAIN ks |-> <<ks[i], vs[i]>>] : vs \in [DOMAIN ks -> V]}

\* mappings over the cycles in Cs with at most n entries
Mappings(Cs, V, n) == UNION {WithValues(ks, V) : ks \in DistinctSeqs(Cs, n)}

CtorCycles == {DAILY, WEEKLY}

CtorArgs ==
    [cls : {"_GFS"}, date_format : {None},
     cycles : {Some(m) : m \in Mappings(CtorCycles, CapValues, MaxMap)},
     kwargs : {<<>>}]
    \cup
    [cls : {"GFS"}, date_format : {Some(DATE_FORMAT)},
     cycles : {None} \cup {Some(m) : m \in Mappings(CtorCycles, CapValues, MaxMap)},
     kwargs : Mappings(KwNames, CapValues, MaxKw)]

\* the calls a caller falls back on after an attempt: one of each outcome
RetryArgs ==
    {[cls |-> "_GFS", date_format |-> None, cycles |-> Some(<<>>), kwargs |-> <<>>],
     [cls |-> "_GFS", date_format |-> None, cycles |-> Some(<<<<DAILY, 0>>>>),
      kwargs |-> <<>>],
     [cls |-> "GFS", date_format |-> Some(DATE_FORMAT), cycles |-> None,
      kwargs |-> <<>>],
     [cls |-> "GFS", date_format |-> Some(DATE_FORMAT), cycles |-> None,
      kwargs |-> <<<<"Fortnightly", 1>>>>],
     [cls |-> "GFS", date_format |-> Some(DATE_FORMAT), cycles |-> None,
      kwargs |-> <<<<"weekly", 1>>>>]}

NoCall == [cls |-> "none", date_format |-> None, cycles |-> None, kwargs |-> <<>>]

SLIdle ==
    /\ sl = NoObject
    /\ slargs = NoArgs
    /\ slpc = "idle"
    /\ inserted = <<>>

CallIdle ==
    /\ pc = "idle"
    /\ dates = <<>>
    /\ pos = 0
    /\ cur = None
    /\ nsent = 0
    /\ coroutines = <<>>
    /\ selected = None
    /\ filtered = None
    /\ prevcall = None
    /\ sent = <<>>

CtorIdle ==
    /\ cargs = NoCall
    /\ cpc = "idle"
    /\ engine = None
    /\ raised = None
    /\ prev = None
    /\ kept = None
    /\ cmp = None

InitCtor ==
    /\ cargs \in CtorArgs
    /\ cpc = "new"
    /\ engine = None
    /\ raised = None
    /\ prev = None
    /\ kept = None
    /\ cmp = None
    /\ SLIdle
    /\ CallIdle

\* the constructor call runs to its end: it returns an engine or raises
Finish(out, cls, fmt) ==
    IF out.raised = None
    THEN /\ cpc' = "built"
         /\ engine' = Some([cls |-> cls, fmt |-> fmt, policies |-> out.policies])
         /\ raised' = None
    ELSE /\ cpc' = "failed"
         /\ engine' = None
         /\ raised' = out.raised

Construct_GFS0 ==
    /\ cpc = "new"
    /\ cargs.cls = "_GFS"
    /\ Finish(GFS0_init(cargs.cycles), "_GFS", None)
    /\ UNCHANGED <<cargs, prev, kept, cmp>>
    /\ UNCHANGED slvars
    /\ UNCHANGED callvars

Construct_GFS ==
    /\ cpc = "new"
    /\ cargs.cls = "GFS"
    /\ Finish(GFS_init(cargs.date_format, cargs.cycles, cargs.kwargs),
              "GFS", cargs.date_format)
    /\ UNCHANGED <<cargs, prev, kept, cmp>>
    /\ UNCHANGED slvars
    /\ UNCHANGED callvars

\* the caller tries again with other arguments, remembering how the last
\* failed attempt ended
NextAttempt ==
    /\ cpc \in {"built", "failed"}
    /\ cargs' \in RetryArgs
    /\ cpc' = "new"
    /\ engine' = None
    /\ raised' = None
    /\ prev' = IF cpc = "failed" THEN Some(raised[1].class) ELSE prev
    /\ UNCHANGED <<kept, cmp>>
    /\ UNCHANGED slvars
    /\ UNCHANGED callvars

NextCtor == Construct_GFS0 \/ Construct_GFS \/ NextAttempt

SpecCtor == InitCtor /\ [][NextCtor]_vars

\* ------------------------------------------------------------------------
\* Properties of engine construction
\* ------------------------------------------------------------------------
Finished == cpc \in {"built", "failed"}

\* the call takes its cycles from the keywords
UsesKeywords == cargs.cls = "GFS" /\ cargs.cycles = None /\ cargs.kwargs # <<>>

UnknownNames ==
    {cargs.kwargs[i][1] : i \in
        {i \in DOMAIN cargs.kwargs : Lower(cargs.kwargs[i][1]) \notin DOMAIN KEYWORD_CYCLES}}

\* the <<cycle name, capacity>> pairs the call supplies on the route it uses
Supplied ==
    IF UsesKeywords
    THEN {<<Cycle_str(KEYWORD_CYCLES[Lower(cargs.kwargs[i][1])]), cargs.kwargs[i][2]>> :
            i \in {i \in DOMAIN cargs.kwargs :
                      Lower(cargs.kwargs[i][1]) \in DOMAIN KEYWORD_CYCLES}}
    ELSE IF cargs.cycles = None
         THEN {}
         ELSE {<<Cycle_str(cargs.cycles[1][i][1]), cargs.cycles[1][i][2]>> :
                 i \in DOMAIN cargs.cycles[1]}

\* C7 (as claimed): a constructor call that supplies a capacity below 1 (in
\* the mapping, or in the keywords when no mapping is given and every keyword
\* names a cycle) fails with the invalid-capacity ValueError naming a cycle
\* and value supplied, and returns no engine.
C7_BadCapacityRejected ==
    (/\ Finished
     /\ UsesKeywords => UnknownNames = {}
     /\ \E p \in Supplied : p[2] < 1)
    => /\ cpc = "failed"
       /\ engine = None
       /\ raised[1].class = "ValueError"
       /\ \E p \in Supplied :
            p[2] < 1 /\ raised[1].name = Some(p[1]) /\ raised[1].value = Some(p[2])

\* C8 (as claimed): a GFS call with a keyword that names no cycle fails with
\* the policy-not-available NotImplementedError carrying that keyword as
\* written, and returns no engine.
C8_UnknownKeywordRejected ==
    (Finished /\ cargs.cls = "GFS" /\ UnknownNames # {})
    => /\ cpc = "failed"
       /\ engine = None
       /\ raised[1].class = "NotImplementedError"
       /\ raised[1].name # None
       /\ raised[1].name[1] \in UnknownNames

\* C8 (amended): a GFS call given no cycles mapping and a keyword that names
\* no cycle fails with the policy-not-available NotImplementedError carrying
\* that keyword as written, and returns no engine.
C8_UnknownKeywordRejectedWithoutMapping ==
    (Finished /\ cargs.cls = "GFS" /\ cargs.cycles = None /\ UnknownNames # {})
    => /\ cpc = "failed"
       /\ engine = None
       /\ raised[1].class = "NotImplementedError"
       /\ raised[1].name # None
       /\ raised[1].name[1] \in UnknownNames

\* C8 witness: the keywords hold a capacity of 0 for a known cycle and then
\* an unknown, capitalised name; the call failed on the name.
C8_Witness ==
    /\ cpc = "failed"
    /\ cargs.cls = "GFS"
    /\ cargs.cycles = None
    /\ Len(cargs.kwargs) = 2
    /\ cargs.kwargs[1] = <<"daily", 0>>
    /\ cargs.kwargs[2][1] = "Fortnightly"
    /\ raised[1].name = Some("Fortnightly")

\* C9 (as claimed): a constructor call that configures no cycle (an empty
\* mapping; for GFS also neither mapping nor keywords) fails with the
\* RuntimeError "GFS with no policy cycles" and returns no engine.
C9_NoCyclesRejected ==
    (/\ Finished
     /\ \/ cargs.cycles = Some(<<>>)
        \/ cargs.cls = "GFS" /\ cargs.cycles = None /\ cargs.kwargs = <<>>)
    => /\ cpc = "failed"
       /\ engine = None
       /\ raised[1].class = "RuntimeError"
       /\ raised[1].text = "GFS with no policy cycles"

KeptBelowOne ==
    IF UsesKeywords
    THEN \E i \in DOMAIN cargs.kwargs :
            /\ cargs.kwargs[i][2] < 1
            /\ \A j \in DOMAIN cargs.kwargs :
                 j > i => KEYWORD_CYCLES[Lower(cargs.kwargs[j][1])]
                            # KEYWORD_CYCLES[Lower(cargs.kwargs[i][1])]
    ELSE cargs.cycles # None /\ \E i \in DOMAIN cargs.cycles[1] : cargs.cycles[1][i][2] < 1

DAILY_BY_YEAR == Cycle("daily", "%Y")

EqKwargs ==
    (Mappings({"daily", "Day", "weekly"}, 1 .. MaxCap, MaxKw) \ {<<>>})
    \cup
    {<<<<n, v>>>> : n \in {"day", "week", "WEEK", "monthly", "month",
                           "yearly", "Yearly", "year"},
                   v \in 1 .. MaxCap}

EqMappings ==
    (Mappings({DAILY, WEEKLY}, 1 .. MaxCap, MaxMap) \ {<<>>})
    \cup
    {<<<<c, v>>>> : c \in {MONTHLY, YEARLY, DAILY_BY_YEAR}, v \in 1 .. MaxCap}

EqArgs ==
    [cls : {"GFS"}, date_format : {Some(DATE_FORMAT)}, cycles : {None},
     kwargs : EqKwargs]
    \cup
    [cls : {"GFS"}, date_format : {Some(DATE_FORMAT)},
     cycles : {Some(m) : m \in EqMappings}, kwargs : {<<>>}]
    \cup
    [cls : {"_GFS"}, date_format : {None},
     cycles : {Some(m) : m \in EqMappings}, kwargs : {<<>>}]

InitEq ==
    /\ cargs \in EqArgs
    /\ cpc = "new"
    /\ engine = None
    /\ raised = None
    /\ prev = None
    /\ kept = None
    /\ cmp = None
    /\ SLIdle
    /\ CallIdle

\* the caller keeps the engine it got and constructs another
KeepAndBuild ==
    /\ cpc = "built"
    /\ kept = None
    /\ kept' = Some([obj |-> engine[1], cargs |-> cargs])
    /\ cargs' \in EqArgs
    /\ cpc' = "new"
    /\ engine' = None
    /\ UNCHANGED <<raised, prev, cmp>>
    /\ UNCHANGED slvars
    /\ UNCHANGED callvars

\* engine == kept
Compare ==
    /\ cpc = "built"
    /\ kept # None
    /\ cmp = None
    /\ cmp' = Some(GFS0_eq(engine[1], kept[1].obj))
    /\ UNCHANGED <<cargs, cpc, engine, raised, prev, kept>>
    /\ UNCHANGED slvars
    /\ UNCHANGED callvars

NextEq == Construct_GFS0 \/ Construct_GFS \/ KeepAndBuild \/ Compare

SpecEq == InitEq /\ [][NextEq]_vars

\* ------------------------------------------------------------------------
\* Properties of engine equality
\* ------------------------------------------------------------------------
\* the cycle a keyword stands for, as the keywords are documented
ClaimedCycle(kwarg) ==
    CASE kwarg \in {"daily", "day", "Day"}          -> DAILY
      [] kwarg \in {"weekly", "week", "WEEK"}       -> WEEKLY
      [] kwarg \in {"monthly", "month"}             -> MONTHLY
      [] kwarg \in {"yearly", "year", "Yearly"}     -> YEARLY

\* mapping m assigns to the cycle of every keyword of kw that keyword's
\* capacity, and has no other cycle
MappingOf(m, kw) ==
    /\ \A i \in DOMAIN kw :
         \E j \in DOMAIN m : m[j][1] = ClaimedCycle(kw[i][1]) /\ m[j][2] = kw[i][2]
    /\ \A j \in DOMAIN m :
         \E i \in DOMAIN kw : m[j][1] = ClaimedCycle(kw[i][1])

\* call a is GFS(fmt, **kw), call b is GFS(fmt, m), and m is the mapping of kw
KeywordsAndTheirMapping(a, b) ==
    /\ a.cls = "GFS" /\ a.cycles = None /\ a.kwargs # <<>>
    /\ b.cls = "GFS" /\ b.cycles # None
    /\ MappingOf(b.cycles[1], a.kwargs)

\* a cycle (name and key format) that has a capacity in one of the
\* policies and not the same capacity in the other
MappingsDiffer(p1, p2) == Range(p1) # Range(p2)

\* C13: a GFS engine built from keywords equals the GFS engine built from
\* the mapping that gives each keyword's cycle the keyword's capacity; two
\* engines whose policies differ in a cycle or in a capacity are not equal.
C13_KeywordEngineEqualsMappingEngine ==
    cmp # None =>
        /\ (\/ KeywordsAndTheirMapping(cargs, kept[1].cargs)
            \/ KeywordsAndTheirMapping(kept[1].cargs, cargs))
           => cmp = Some(TRUE)
        /\ MappingsDiffer(engine[1].policies, kept[1].obj.policies)
           => cmp = Some(FALSE)

\* C13 witness: GFS(fmt, Day=1, weekly=2) compared equal to the kept
\* GFS(fmt, {WEEKLY: 2, DAILY: 1}).
C13_Witness ==
    /\ cmp = Some(TRUE)
    /\ cargs.cls = "GFS"
    /\ cargs.kwargs = <<<<"Day", 1>>, <<"weekly", 2>>>>
    /\ kept[1].cargs.cls = "GFS"
    /\ kept[1].cargs.cycles = Some(<<<<WEEKLY, 2>>, <<DAILY, 1>>>>)

\* ------------------------------------------------------------------------
\* Specification SpecSL: a container is constructed, then receives inserts
\* ------------------------------------------------------------------------
Values == 0 .. MaxValue

SeqsUpTo(S, n) == UNION {[1 .. k -> S] : k \in 0 .. n}

Classes == {"SortedLimitedList", "SortedLimitedSet"}

InitSL ==
    /\ CtorIdle
    /\ CallIdle
    /\ slargs \in [cls : Classes,
                   max_size : 1 .. MaxSize,
                   iterable : {None} \cup {Some(b) : b \in SeqsUpTo(Values, MaxBatch)},
                   key : {None} \cup {Some([fn |-> f]) : f \in LambdaKeys}]
    /\ sl = NoObject
    /\ slpc = "new"
    /\ inserted = <<>>

SL_Construct ==
    /\ slpc = "new"
    /\ sl' = SortedLimitedList_init(slargs.cls, slargs.max_size,
                                    slargs.iterable, slargs.key)
    /\ inserted' = IF slargs.iterable = None THEN <<>> ELSE slargs.iterable[1]
    /\ slpc' = "ready"
    /\ slargs' = NoArgs
    /\ UNCHANGED <<ctorvars, raised, callvars>>

SL_Insert ==
    /\ slpc = "ready"
    /\ Len(inserted) < MaxBatch + MaxInserts
    /\ \E v \in Values :
        /\ sl' = Insert(sl, v)
        /\ inserted' = Append(inserted, v)
    /\ UNCHANGED <<slargs, slpc>>
    /\ UNCHANGED <<ctorvars, raised, callvars>>

NextSL == SL_Construct \/ SL_Insert

SpecSL == InitSL /\ [][NextSL]_vars

\* ------------------------------------------------------------------------
\* Properties of the containers
\* ------------------------------------------------------------------------
Min2(a, b) == IF a < b THEN a ELSE b

MaxOf(S) == CHOOSE m \in S : \A x \in S : x <= m

IsReadySet == slpc = "ready" /\ sl.cls = "SortedLimitedSet"

\* the distinct keys of all values inserted so far
KeysInserted == {ApplyKey(sl.key, v) : v \in Range(inserted)}

\* the values inserted so far under key k
ValuesWithKey(k) == {v \in Range(inserted) : ApplyKey(sl.key, v) = k}

\* C1: after any sequence of inserts (initial batch and/or insert calls) a
\* SortedLimitedSet of capacity K holds exactly min(K, #distinct keys)
\* entries, entry i carries the i-th of the largest distinct keys ever
\* inserted (ascending), and its value is the maximum of all values
\* inserted with that key.
C1_SetContents ==
    IsReadySet =>
        /\ Len(sl.keys) = Min2(sl.max_size, Cardinality(KeysInserted))
        /\ Len(sl.list) = Len(sl.keys)
        /\ \A i \in 1 .. Len(sl.keys) :
            /\ sl.keys[i] \in KeysInserted
            /\ Cardinality({k \in KeysInserted : k > sl.keys[i]}) = Len(sl.keys) - i
            /\ sl.list[i] = MaxOf(ValuesWithKey(sl.keys[i]))

\* C1 witness: a set that has seen more distinct keys than it can hold and
\* a key collision in which the smaller value arrived last.
C1_Witness ==
    /\ IsReadySet
    /\ Cardinality(KeysInserted) > sl.max_size
    /\ \E i \in 1 .. Len(sl.keys) :
        /\ Cardinality(ValuesWithKey(sl.keys[i])) > 1
        /\ inserted[Len(inserted)] \in ValuesWithKey(sl.keys[i])
        /\ inserted[Len(inserted)] < sl.list[i]

\* C4: in every state of a SortedLimitedSet the size is at most max_size,
\* the keys are strictly increasing, and keys and list run in parallel:
\* same length, keys[i] = key(list[i]).
C4_SetInvariant ==
    IsReadySet =>
        /\ Len(sl.keys) <= sl.max_size
        /\ \A i \in 1 .. Len(sl.keys) - 1 : sl.keys[i] < sl.keys[i + 1]
        /\ Len(sl.keys) = Len(sl.list)
        /\ \A i \in 1 .. Len(sl.keys) : sl.keys[i] = ApplyKey(sl.key, sl.list[i])

\* C4 witness: a full set of at least two entries that has already turned
\* values away (more inserts than entries).
C4_Witness ==
    /\ IsReadySet
    /\ Len(sl.keys) = sl.max_size
    /\ sl.max_size >= 2
    /\ Len(inserted) > sl.max_size

\* an insert call (not the constructor's batch) has been made
InsertCalled == Len(inserted) > MaxBatch

LastInserted == inserted[Len(inserted)]

\* this step is the call insert(v) on the constructed container
Inserting(v) ==
    /\ slpc = "ready"
    /\ slpc' = "ready"
    /\ inserted' = Append(inserted, v)

\* C11: inserting into a SortedLimitedSet the value that was inserted just
\* before leaves the set as the first of the two inserts left it: same
\* keys, same values.
C11_TwiceIsOnce ==
    [][\A v \in Values :
         (IsReadySet /\ inserted # <<>> /\ LastInserted = v /\ Inserting(v))
         => sl' = sl]_vars

\* C11 witness: the last two insert calls gave the same value to a full set,
\* and the value is kept.
C11_Witness ==
    /\ IsReadySet
    /\ InsertCalled
    /\ Len(inserted) >= MaxBatch + 2
    /\ inserted[Len(inserted) - 1] = LastInserted
    /\ Len(sl.keys) = sl.max_size
    /\ LastInserted \in Range(sl.list)

IsReadyList == slpc = "ready" /\ sl.cls = "SortedLimitedList"

\* the keys of the values inserted so far, one per insert
KeySeq == [i \in DOMAIN inserted |-> ApplyKey(sl.key, inserted[i])]

CountIn(q, k) == Cardinality({i \in DOMAIN q : q[i] = k})

\* C14: after n inserts (initial batch and insert calls, duplicate keys
\* allowed) a SortedLimitedList of capacity K holds min(n, K) elements in
\* non-decreasing key order, and its keys are, as a multiset, the min(n, K)
\* largest of the keys inserted: no key occurs more often than it was
\* inserted, and every occurrence left out is no greater than the smallest
\* key kept.
C14_ListContents ==
    IsReadyList =>
        /\ Len(sl.keys) = Min2(Len(inserted), sl.max_size)
        /\ Len(sl.list) = Len(sl.keys)
        /\ \A i \in 1 .. Len(sl.keys) - 1 : sl.keys[i] <= sl.keys[i + 1]
        /\ \A i \in 1 .. Len(sl.keys) : sl.keys[i] = ApplyKey(sl.key, sl.list[i])
        /\ \A k \in Range(KeySeq) :
            /\ CountIn(sl.keys, k) <= CountIn(KeySeq, k)
            /\ CountIn(sl.keys, k) < CountIn(KeySeq, k) => k <= sl.keys[1]

\* C14 witness: a full list of at least two elements that holds a key twice
\* and has seen more values than it can hold, one of them by an insert call.
C14_Witness ==
    /\ IsReadyList
    /\ InsertCalled
    /\ sl.max_size >= 2
    /\ Len(inserted) > sl.max_size
    /\ \E i \in 1 .. Len(sl.keys) - 1 : sl.keys[i] = sl.keys[i + 1]

\* C17: insert on a SortedLimitedSet that holds max_size entries, with a
\* value whose key is smaller than every kept key, returns and leaves keys
\* and values as they were.
C17_SmallKeyIgnored ==
    [][\A v \in Values :
         (/\ IsReadySet
          /\ Len(sl.keys) = sl.max_size
          /\ \A i \in DOMAIN sl.keys : ApplyKey(sl.key, v) < sl.keys[i]
          /\ Inserting(v))
         => sl' = sl]_vars

\* C17 witness: the last insert call gave a full set a key below its
\* smallest.
C17_Witness ==
    /\ IsReadySet
    /\ InsertCalled
    /\ Len(sl.keys) = sl.max_size
    /\ ApplyKey(sl.key, LastInserted) < sl.keys[1]

\* C18: insert on a SortedLimitedSet with a value whose key is the key of an
\* entry leaves the keys, the size and every other entry's value as they
\* were; the entry's value becomes the new value if new >= existing and
\* stays otherwise.
C18_CollisionFrame ==
    [][\A v \in Values :
         (/\ IsReadySet
          /\ ApplyKey(sl.key, v) \in Range(sl.keys)
          /\ Inserting(v))
         => /\ sl'.keys = sl.keys
            /\ Len(sl'.list) = Len(sl.list)
            /\ sl'.max_size = sl.max_size
            /\ \A j \in DOMAIN sl.keys :
                 sl'.list[j] = IF sl.keys[j] # ApplyKey(sl.key, v) THEN sl.list[j]
                               ELSE IF v >= sl.list[j] THEN v
                               ELSE sl.list[j]]_vars

\* C18 witness: the last insert call collided with an entry of a set of two
\* or more entries and its greater value took the place of a smaller one
\* inserted before.
C18_Witness ==
    /\ IsReadySet
    /\ InsertCalled
    /\ Len(sl.keys) >= 2
    /\ LastInserted \in Range(sl.list)
    /\ \E i \in 1 .. Len(inserted) - 1 :
        /\ ApplyKey(sl.key, inserted[i]) = ApplyKey(sl.key, LastInserted)
        /\ inserted[i] < LastInserted
        /\ \A j \in 1 .. Len(inserted) - 1 : inserted[j] # LastInserted

\* C20: along the inserts into a SortedLimitedSet the size never goes down
\* and stays at max_size once there, the smallest kept key of a full set
\* never goes down, and a key that was inserted and is not kept (evicted or
\* rejected) is not kept afterwards either.
C20_Monotone ==
    [][(IsReadySet /\ slpc' = "ready")
       => /\ Len(sl'.keys) >= Len(sl.keys)
          /\ Len(sl.keys) = sl.max_size =>
               /\ Len(sl'.keys) = sl.max_size
               /\ sl'.keys[1] >= sl.keys[1]
          /\ \A k \in KeysInserted \ Range(sl.keys) : k \notin Range(sl'.keys)]_vars

\* C20 witness: the last insert call offered a full set a key it had been
\* given before and no longer kept, and the key is still out.
C20_Witness ==
    /\ IsReadySet
    /\ InsertCalled
    /\ Len(sl.keys) = sl.max_size
    /\ ApplyKey(sl.key, LastInserted) \notin Range(sl.keys)
    /\ \E i \in 1 .. Len(inserted) - 1 :
         ApplyKey(sl.key, inserted[i]) = ApplyKey(sl.key, LastInserted)
    /\ \E i \in 1 .. Len(inserted) - 1 :
         ApplyKey(sl.key, inserted[i]) > ApplyKey(sl.key, LastInserted)

\* ------------------------------------------------------------------------
\* GFS: date strings
\* ------------------------------------------------------------------------
DateStr(stamp, sep, padded) == [stamp |-> stamp, sep |-> sep, padded |-> padded]

\* datetime.strptime(str_date, fmt) for fmt = DATE_FORMAT.  Fields may be
\* written with or without their leading zero; the character between date
\* and time must be the format's "T".
Strptime(str_date, fmt) ==
    LET t == str_date.stamp
    IN  IF \/ str_date.sep # "T"
           \/ Month(t) \notin 1 .. 12
           \/ Day(t) \notin 1 .. 31
           \/ Hour(t) \notin 0 .. 23
        THEN [ok |-> FALSE, date |-> 0,
              reason |-> "time data {data_string} does not match format {format}"]
        ELSE IF Day(t) > DaysInMonth(Year(t), Month(t))
        THEN [ok |-> FALSE, date |-> 0, reason |-> "day is out of range for month"]
        ELSE [ok |-> TRUE, date |-> t, reason |-> ""]

\* Mutant: the ValueError of strptime is passed on as it is.
GFS_parse_date_Bare(fmt, str_date) ==
    LET r == Strptime(str_date, fmt)
    IN  IF r.ok
        THEN [raised |-> None, date |-> r.date]
        ELSE [raised |-> Some(Error("ValueError", r.reason, None, None, None, None)),
              date |-> 0]

\* GFS._parse_date: the outcome [raised, date]
GFS_parse_date(fmt, str_date) ==
    LET r == Strptime(str_date, fmt)
    IN  IF r.ok
        THEN [raised |-> None, date |-> r.date]
        ELSE [raised |-> Some(Error("ValueError", "Invalid date {str_date}: {e}.",
                                    None, None, Some(str_date), Some(r.reason))),
              date |-> 0]

\* GFS._format_date: format(date, self.fmt), zero-padded fields
GFS_format_date(fmt, date) == DateStr(date, "T", TRUE)

\* GFS._date_to_str over a list
GFS_date_to_str(fmt, ds) == [i \in DOMAIN ds |-> GFS_format_date(fmt, ds[i])]

\* ------------------------------------------------------------------------
\* _GFS: one filtering call
\* ------------------------------------------------------------------------

\* Mutant: the cycle_set is made one entry too large.
GFS0_gfs_cycle_OneMore(policies, cycle) ==
    SortedLimitedList_init("SortedLimitedSet", DictGet(policies, cycle) + 1, None,
                           Some([fn |-> "cycle", cycle |-> cycle]))

\* _gfs_cycle up to its first yield: the cycle_set of the coroutine
GFS0_gfs_cycle(policies, cycle) ==
    SortedLimitedList_init("SortedLimitedSet", DictGet(policies, cycle), None,
                           Some([fn |-> "cycle", cycle |-> cycle]))

\* cycle.send(date) with a date (a datetime is always true): the loop body
GFS0_gfs_cycle_send(cycle_set, date) == Insert(cycle_set, date)

\* cycle.send(None): the coroutine yields iter(cycle_set)
GFS0_gfs_cycle_finalise(cycle_set) == Iter(cycle_set)

\* the dict `selected` of _GFS._gfs, and what GFS._gfs makes of it
GFS0_selected(cs) ==
    [i \in DOMAIN cs |-> <<cs[i][1], GFS0_gfs_cycle_finalise(cs[i][2])>>]

GFS_selected(fmt, result) ==
    [i \in DOMAIN result |-> <<result[i][1], GFS_date_to_str(fmt, result[i][2])>>]

\* Mutant: only the first cycle's list is returned.
GFS0_union_FirstOnly(sel) == Range(sel[1][2])

\* gfs_filter: the union of the selected lists
GFS0_union(sel) == UNION {Range(sel[i][2]) : i \in DOMAIN sel}

TheEngine == engine[1]

\* Mutant: the cycle_sets outlive the call; a later call starts from what
\* the call before it selected.
Call_KeepSets ==
    /\ pc = "ready"
    /\ coroutines' = [i \in DOMAIN TheEngine.policies |->
                        <<TheEngine.policies[i][1],
                          IF prevcall = None \/ prevcall[1].selected = <<>>
                          THEN GFS0_gfs_cycle(TheEngine.policies, TheEngine.policies[i][1])
                          ELSE InsertAll(
                                 GFS0_gfs_cycle(TheEngine.policies, TheEngine.policies[i][1]),
                                 [j \in DOMAIN prevcall[1].selected[i][2] |->
                                     IF TheEngine.cls = "GFS"
                                     THEN prevcall[1].selected[i][2][j].stamp
                                     ELSE prevcall[1].selected[i][2][j]])>>]
    /\ pc' = "feeding"
    /\ pos' = 0
    /\ cur' = None
    /\ nsent' = 0
    /\ sent' = [i \in DOMAIN TheEngine.policies |-> <<>>]
    /\ UNCHANGED <<dates, selected, filtered, prevcall, raised>>
    /\ UNCHANGED <<slvars, ctorvars>>

\* gfs_filter is called: _gfs creates one coroutine per cycle and primes it
Call ==
    /\ pc = "ready"
    /\ coroutines' = [i \in DOMAIN TheEngine.policies |->
                        <<TheEngine.policies[i][1],
                          GFS0_gfs_cycle(TheEngine.policies, TheEngine.policies[i][1])>>]
    /\ pc' = "feeding"
    /\ pos' = 0
    /\ cur' = None
    /\ nsent' = 0
    /\ sent' = [i \in DOMAIN TheEngine.policies |-> <<>>]
    /\ UNCHANGED <<dates, selected, filtered, prevcall, raised>>
    /\ UNCHANGED <<slvars, ctorvars>>

\* what the iterable of the call yields for an item of the batch: the item
\* itself for _GFS, its parse (GFS._str_to_date) for GFS
Yielded(item) ==
    IF TheEngine.cls = "GFS"
    THEN GFS_parse_date(TheEngine.fmt[1], item)
    ELSE [raised |-> None, date |-> item]

\* `for date in dates` takes the next item
NextDate ==
    /\ pc = "feeding"
    /\ cur = None
    /\ pos < Len(dates)
    /\ Yielded(dates[pos + 1]).raised = None
    /\ cur' = Some(Yielded(dates[pos + 1]).date)
    /\ pos' = pos + 1
    /\ nsent' = 0
    /\ UNCHANGED <<pc, dates, coroutines, selected, filtered, prevcall, sent, raised>>
    /\ UNCHANGED <<slvars, ctorvars>>

\* ... and the item does not parse: the ValueError leaves _gfs and gfs_filter,
\* and the coroutines go with the frame
NextDateRaises ==
    /\ pc = "feeding"
    /\ cur = None
    /\ pos < Len(dates)
    /\ Yielded(dates[pos + 1]).raised # None
    /\ raised' = Yielded(dates[pos + 1]).raised
    /\ pc' = "raised"
    /\ pos' = pos + 1
    /\ coroutines' = <<>>
    /\ UNCHANGED <<dates, cur, nsent, selected, filtered, prevcall, sent>>
    /\ UNCHANGED <<slvars, ctorvars>>

\* cycle.send(date) for the next coroutine of `cycles.values()`
Send ==
    /\ pc = "feeding"
    /\ cur # None
    /\ nsent < Len(coroutines)
    /\ coroutines' = [coroutines EXCEPT
                        ![nsent + 1][2] = GFS0_gfs_cycle_send(@, cur[1])]
    /\ nsent' = nsent + 1
    /\ sent' = [sent EXCEPT ![nsent + 1] = Append(@, cur[1])]
    /\ cur' = IF nsent + 1 = Len(coroutines) THEN None ELSE cur
    /\ UNCHANGED <<pc, dates, pos, selected, filtered, prevcall, raised>>
    /\ UNCHANGED <<slvars, ctorvars>>

\* Mutant: the coroutines are finalised although dates are still to come.
Gfs_Return_Early ==
    /\ pc = "feeding"
    /\ cur = None
    /\ selected' = Some(IF TheEngine.cls = "GFS"
                        THEN GFS_selected(TheEngine.fmt[1], GFS0_selected(coroutines))
                        ELSE GFS0_selected(coroutines))
    /\ coroutines' = <<>>
    /\ pc' = "selected"
    /\ UNCHANGED <<dates, pos, cur, nsent, filtered, prevcall, sent, raised>>
    /\ UNCHANGED <<slvars, ctorvars>>

\* the batch is exhausted: every coroutine is sent None and _gfs returns
Gfs_Return ==
    /\ pc = "feeding"
    /\ cur = None
    /\ pos = Len(dates)
    /\ selected' = Some(IF TheEngine.cls = "GFS"
                        THEN GFS_selected(TheEngine.fmt[1], GFS0_selected(coroutines))
                        ELSE GFS0_selected(coroutines))
    /\ coroutines' = <<>>
    /\ pc' = "selected"
    /\ UNCHANGED <<dates, pos, cur, nsent, filtered, prevcall, sent, raised>>
    /\ UNCHANGED <<slvars, ctorvars>>

\* gfs_filter unites the lists and returns
Filter_Return ==
    /\ pc = "selected"
    /\ filtered' = Some(GFS0_union(selected[1]))
    /\ pc' = "returned"
    /\ UNCHANGED <<dates, pos, cur, nsent, coroutines, selected, prevcall, sent, raised>>
    /\ UNCHANGED <<slvars, ctorvars>>

\* ------------------------------------------------------------------------
\* Specification Spec: an engine filters one batch
\* ------------------------------------------------------------------------
\* 25 December 2016, 30 April, 14, 20 and 21 May 2017: two years, three
\* months, four weeks (51, 17, 19, 20 and 20), five days, and days of the
\* month out of order
Timestamps == {2016122514, 2017043016, 2017051419, 2017052020, 2017052122}

\* the same without the year 2016, for the caller that filters twice
FewTimestamps == {2017043016, 2017051419, 2017052020, 2017052122}

DateStrings ==
    {DateStr(2017051419, "T", TRUE),
     DateStr(2017052122, "T", TRUE),
     DateStr(2017052122, "T", FALSE),    \* "2017-5-21T22:00:00"
     DateStr(2017060113, "X", TRUE),     \* "2017-06-01X13:00:00"
     DateStr(2017023012, "T", TRUE)}     \* 30 February

PolicyCycles == <<YEARLY, MONTHLY, WEEKLY, DAILY, DAY_OF_MONTH>>

\* the cycles of a policy, in the order of the dict: any one cycle, or any
\* two (the docstring example below has four)
PolicyShapes ==
    {<<PolicyCycles[i]>> : i \in DOMAIN PolicyCycles}
    \cup
    {<<PolicyCycles[p[1]], PolicyCycles[p[2]]>> :
        p \in {q \in (DOMAIN PolicyCycles) \X (DOMAIN PolicyCycles) : q[1] < q[2]}}

Policies == UNION {WithValues(ks, 1 .. MaxCap) : ks \in PolicyShapes}

\* the engines construction can return
Engines ==
    {[cls |-> "_GFS", fmt |-> None, policies |-> m] : m \in Policies}
    \cup
    {[cls |-> "GFS", fmt |-> Some(DATE_FORMAT), policies |-> m] : m \in Policies}

Batches(cls, n) ==
    IF cls = "GFS" THEN SeqsUpTo(DateStrings, n) ELSE SeqsUpTo(Timestamps, n)

\* the example of the docstrings
DoctestDates ==
    <<2017052122, 2017052121, 2017052020, 2017051419, 2017051318,
      2017050717, 2017043016, 2017042315, 2016122514, 2015123013>>

DoctestPolicies == <<<<YEARLY, 2>>, <<MONTHLY, 2>>, <<WEEKLY, 2>>, <<DAILY, 2>>>>

InitCall(n) ==
    /\ SLIdle
    /\ cargs = NoCall
    /\ cpc = "built"
    /\ prev = None
    /\ kept = None
    /\ cmp = None
    /\ raised = None
    /\ \/ /\ engine \in {Some(e) : e \in Engines}
          /\ dates \in Batches(engine[1].cls, n)
       \/ /\ engine = Some([cls |-> "_GFS", fmt |-> None, policies |-> DoctestPolicies])
          /\ dates = DoctestDates
       \/ /\ engine = Some([cls |-> "GFS", fmt |-> Some(DATE_FORMAT),
                            policies |-> DoctestPolicies])
          /\ dates = [i \in DOMAIN DoctestDates |-> DateStr(DoctestDates[i], "T", TRUE)]
    /\ pc = "ready"
    /\ pos = 0
    /\ cur = None
    /\ nsent = 0
    /\ coroutines = <<>>
    /\ selected = None
    /\ filtered = None
    /\ prevcall = None
    /\ sent = <<>>

Init == InitCall(MaxDates)

Next == Call \/ NextDate \/ NextDateRaises \/ Send \/ Gfs_Return \/ Filter_Return

Spec == Init /\ [][Next]_vars

\* ------------------------------------------------------------------------
\* Specification SpecPerm: a caller filters a batch, then the same batch in
\* another order, on the same _GFS engine
\* ------------------------------------------------------------------------
PermsOf(q) == {[i \in DOMAIN q |-> q[f[i]]] : f \in Permutations(DOMAIN q)}

PermPolicies ==
    UNION {WithValues(ks, 1 .. MaxCap) :
            ks \in {<<PolicyCycles[i]>> : i \in DOMAIN PolicyCycles}}
    \cup
    UNION {WithValues(ks, {c}) :
            ks \in {<<WEEKLY, DAY_OF_MONTH>>, <<DAILY, YEARLY>>, <<MONTHLY, WEEKLY>>},
            c \in 1 .. MaxCap}

InitPerm ==
    /\ SLIdle
    /\ cargs = NoCall
    /\ cpc = "built"
    /\ prev = None
    /\ kept = None
    /\ cmp = None
    /\ raised = None
    /\ engine \in {Some([cls |-> "_GFS", fmt |-> None, policies |-> m]) : m \in PermPolicies}
    /\ dates \in SeqsUpTo(FewTimestamps, MaxPermDates)
    /\ pc = "ready"
    /\ pos = 0
    /\ cur = None
    /\ nsent = 0
    /\ coroutines = <<>>
    /\ selected = None
    /\ filtered = None
    /\ prevcall = None
    /\ sent = <<>>

CallAgainPermuted ==
    /\ pc = "returned"
    /\ prevcall = None
    /\ prevcall' = Some([dates |-> dates, selected |-> selected[1],
                         filtered |-> filtered[1]])
    /\ dates' \in PermsOf(dates)
    /\ pc' = "ready"
    /\ pos' = 0
    /\ cur' = None
    /\ nsent' = 0
    /\ coroutines' = <<>>
    /\ selected' = None
    /\ filtered' = None
    /\ sent' = <<>>
    /\ UNCHANGED raised
    /\ UNCHANGED <<slvars, ctorvars>>

NextPerm ==
    Call \/ NextDate \/ Send \/ Gfs_Return \/ Filter_Return \/ CallAgainPermuted

SpecPerm == InitPerm /\ [][NextPerm]_vars

\* ------------------------------------------------------------------------
\* Specification SpecLife: a caller constructs an engine and, if it got one,
\* filters batch after batch with it, going on after a call that raised
\* ------------------------------------------------------------------------
LifeArgs ==
    {[cls |-> "_GFS", date_format |-> None, cycles |-> Some(<<<<DAILY, 1>>>>),
      kwargs |-> <<>>],
     [cls |-> "_GFS", date_format |-> None,
      cycles |-> Some(<<<<WEEKLY, 2>>, <<DAY_OF_MONTH, 1>>>>), kwargs |-> <<>>],
     [cls |-> "_GFS", date_format |-> None, cycles |-> Some(<<<<MONTHLY, 0>>>>),
      kwargs |-> <<>>],
     [cls |-> "_GFS", date_format |-> None, cycles |-> Some(<<>>), kwargs |-> <<>>],
     [cls |-> "GFS", date_format |-> Some(DATE_FORMAT), cycles |-> None,
      kwargs |-> <<<<"weekly", 2>>, <<"Day", 1>>>>],
     [cls |-> "GFS", date_format |-> Some(DATE_FORMAT),
      cycles |-> Some(<<<<MONTHLY, 1>>, <<DAILY, 2>>>>), kwargs |-> <<>>],
     [cls |-> "GFS", date_format |-> Some(DATE_FORMAT), cycles |-> None,
      kwargs |-> <<<<"daily", 0>>, <<"Day", 2>>>>],
     [cls |-> "GFS", date_format |-> Some(DATE_FORMAT), cycles |-> None,
      kwargs |-> <<<<"weekly", 1>>, <<"daily", 0>>>>],
     [cls |-> "GFS", date_format |-> Some(DATE_FORMAT), cycles |-> None,
      kwargs |-> <<>>]}

LifeTimestamps == {2017043016, 2017052020, 2017052122}

LifeStrings ==
    {DateStr(2017043016, "T", TRUE),
     DateStr(2017052020, "T", TRUE),
     DateStr(2017052122, "T", FALSE),    \* "2017-5-21T22:00:00"
     DateStr(2017023012, "T", TRUE)}     \* 30 February

LifeBatches(cls) ==
    IF cls = "GFS"
    THEN SeqsUpTo(LifeStrings, MaxLifeDates)
    ELSE SeqsUpTo(LifeTimestamps, MaxLifeDates)

InitLife ==
    /\ cargs \in LifeArgs
    /\ cpc = "new"
    /\ engine = None
    /\ raised = None
    /\ prev = None
    /\ kept = None
    /\ cmp = None
    /\ SLIdle
    /\ CallIdle

\* the first gfs_filter call on the engine that was built
FirstCall ==
    /\ cpc = "built"
    /\ pc = "idle"
    /\ dates' \in LifeBatches(TheEngine.cls)
    /\ pc' = "ready"
    /\ UNCHANGED <<pos, cur, nsent, coroutines, selected, filtered, prevcall, sent>>
    /\ UNCHANGED raised
    /\ UNCHANGED <<slvars, ctorvars>>

\* another gfs_filter call on the same engine, after the last one returned
\* or raised (the caller caught the ValueError and keeps what the last call
\* was given and gave back, nothing if it raised)
CallAgain ==
    /\ pc \in {"returned", "raised"}
    /\ prevcall' = Some([dates |-> dates,
                         selected |-> IF pc = "returned" THEN selected[1] ELSE <<>>,
                         filtered |-> IF pc = "returned" THEN filtered[1] ELSE {}])
    /\ dates' \in LifeBatches(TheEngine.cls)
    /\ pc' = "ready"
    /\ pos' = 0
    /\ cur' = None
    /\ nsent' = 0
    /\ coroutines' = <<>>
    /\ selected' = None
    /\ filtered' = None
    /\ sent' = <<>>
    /\ raised' = None
    /\ UNCHANGED <<slvars, ctorvars>>

NextLife ==
    \/ Construct_GFS0
    \/ Construct_GFS
    \/ FirstCall
    \/ Call
    \/ NextDate
    \/ NextDateRaises
    \/ Send
    \/ Gfs_Return
    \/ Filter_Return
    \/ CallAgain

SpecLife == InitLife /\ [][NextLife]_vars

\* ------------------------------------------------------------------------
\* Properties of filtering
\* ------------------------------------------------------------------------
RECURSIVE SumCaps(_)
SumCaps(policies) ==
    IF policies = <<>> THEN 0 ELSE Head(policies)[2] + SumCaps(Tail(policies))

\* the items of the batch that do not parse
Unparsable == {i \in DOMAIN dates : Yielded(dates[i]).raised # None}

\* the timestamps of the batch
Parsed == {Yielded(dates[i]).date : i \in DOMAIN dates \ Unparsable}

\* a returned value (a datetime from _GFS, a date string from GFS) as a
\* timestamp, and a timestamp as a returned value
StampOf(x) == IF TheEngine.cls = "GFS" THEN x.stamp ELSE x

Out(t) == IF TheEngine.cls = "GFS" THEN DateStr(t, "T", TRUE) ELSE t

BucketKeys(c) == {Cycle_key(c, t) : t \in Parsed}

\* t is the greatest timestamp of its bucket of cycle c, and the bucket is
\* among the N_c greatest of the batch
RetainedBy(c) ==
    LET P == Parsed
        K == {Cycle_key(c, t) : t \in P}
        N == DictGet(TheEngine.policies, c)
    IN  {t \in P :
            /\ \A u \in P : Cycle_key(c, u) = Cycle_key(c, t) => u <= t
            /\ Cardinality({k \in K : k > Cycle_key(c, t)}) < N}

ListsAsClaimed(sel) ==
    /\ [i \in DOMAIN sel |-> sel[i][1]]
          = [i \in DOMAIN TheEngine.policies |-> TheEngine.policies[i][1]]
    /\ \A i \in DOMAIN sel :
        LET c == sel[i][1]
            l == sel[i][2]
            R == RetainedBy(c)
        IN  /\ {StampOf(l[j]) : j \in DOMAIN l} = R
            /\ Len(l) = Cardinality(R)
            /\ \A j \in 1 .. Len(l) - 1 :
                 Cycle_key(c, StampOf(l[j])) < Cycle_key(c, StampOf(l[j + 1]))

IsDoctest ==
    /\ TheEngine.policies = DoctestPolicies
    /\ Len(dates) = Len(DoctestDates)

\* C2: gfs_filter returns exactly the timestamps that, for some configured
\* cycle c, are the greatest of their c-bucket with that bucket among the N_c
\* greatest c-buckets of the batch; the list _gfs returns for a cycle holds
\* that cycle's timestamps, one per retained bucket, in ascending bucket
\* order; on the docstring example the result is the five dates it names.
C2_RetainedSet ==
    /\ selected # None => ListsAsClaimed(selected[1])
    /\ pc = "returned" =>
        /\ filtered[1] = {Out(t) : t \in UNION {RetainedBy(c) : c \in DictKeys(TheEngine.policies)}}
        /\ IsDoctest =>
             filtered[1] = {Out(t) : t \in {2016122514, 2017043016, 2017051419,
                                            2017052020, 2017052122}}

\* C2 witness: a call has returned for two cycles, one of which saw more
\* buckets than its capacity and a bucket with two timestamps.
C2_Witness ==
    /\ pc = "returned"
    /\ Len(TheEngine.policies) = 2
    /\ \E c \in DictKeys(TheEngine.policies) :
        /\ Cardinality(BucketKeys(c)) > DictGet(TheEngine.policies, c)
        /\ \E t, u \in Parsed : t # u /\ Cycle_key(c, t) = Cycle_key(c, u)
    /\ Cardinality(filtered[1]) >= 2

\* C2 witness on the docstring example
C2_DoctestReturned == pc = "returned" /\ IsDoctest /\ TheEngine.cls = "GFS"

\* C3: filtering a permutation of a batch returns the same retained set and
\* the same per-cycle lists, and every list entry is the greatest timestamp
\* of its bucket whatever the order of arrival.
C3_PermutationInvariant ==
    (pc = "returned" /\ prevcall # None) =>
        /\ filtered[1] = prevcall[1].filtered
        /\ selected[1] = prevcall[1].selected
        /\ \A i \in DOMAIN selected[1] :
            \A j \in DOMAIN selected[1][i][2] :
                \A u \in Parsed :
                    Cycle_key(selected[1][i][1], u)
                        = Cycle_key(selected[1][i][1], selected[1][i][2][j])
                    => u <= selected[1][i][2][j]

\* C3 witness: the second call has returned; two timestamps of one retained
\* bucket arrived in one order in the first call and in the other order in
\* the second.
C3_Witness ==
    /\ pc = "returned"
    /\ prevcall # None
    /\ \E c \in DictKeys(TheEngine.policies) :
        \E i, j \in DOMAIN dates :
            /\ i < j
            /\ dates[i] # dates[j]
            /\ Cycle_key(c, dates[i]) = Cycle_key(c, dates[j])
            /\ Out(MaxOf({dates[i], dates[j]})) \in filtered[1]
            /\ \E k, l \in DOMAIN dates :
                /\ k < l
                /\ prevcall[1].dates[k] = dates[j]
                /\ prevcall[1].dates[l] = dates[i]

\* C5: the set gfs_filter returns has at most as many elements as the
\* capacities add up to, and is not empty when the batch is not.
C5_SizeBounds ==
    pc = "returned" =>
        /\ Cardinality(filtered[1]) <= SumCaps(TheEngine.policies)
        /\ dates # <<>> => filtered[1] # {}

\* C5 witness: a returned set as large as the capacities allow, from a batch
\* larger than that.
C5_Witness ==
    /\ pc = "returned"
    /\ Len(TheEngine.policies) = 2
    /\ Cardinality(filtered[1]) = SumCaps(TheEngine.policies)
    /\ Cardinality(Parsed) > Cardinality(filtered[1])

\* C6: when the batch given to a GFS engine holds a string that does not
\* parse, at any position, the call returns nothing (no lists from _gfs, no
\* set from gfs_filter), cannot stop before it raises, and ends with the
\* ValueError "Invalid date ..." whose message carries an unparsable string
\* of the batch as it was given.
C6_ParseErrorAborts ==
    (pc # "idle" /\ TheEngine.cls = "GFS" /\ Unparsable # {}) =>
        /\ selected = None
        /\ filtered = None
        /\ pc \in {"ready", "feeding", "raised"}
        /\ pc # "raised" => ENABLED Next
        /\ pc = "raised" =>
            /\ raised # None
            /\ raised[1].class = "ValueError"
            /\ raised[1].text = "Invalid date {str_date}: {e}."
            /\ raised[1].raw # None
            /\ raised[1].raw[1] \in {dates[i] : i \in Unparsable}
            /\ raised[1].cause # None
            /\ coroutines = <<>>

\* C6 witness: the call raised on the third item, 30 February, after two
\* dates had gone into the sets.
C6_Witness ==
    /\ pc = "raised"
    /\ pos = 3
    /\ Unparsable = {3}
    /\ raised[1].cause = Some("day is out of range for month")

\* the first n dates the iterable of the call yields
DatesSeq(n) == [j \in 1 .. n |-> Yielded(dates[j]).date]

\* how many dates coroutine i has been sent at this point of the call
DueTo(i) ==
    IF pc = "raised" THEN pos - 1
    ELSE IF cur # None /\ i > nsent THEN pos - 1
    ELSE pos

\* C16: within a call every coroutine receives the dates of the batch once
\* each and in the batch's order, one date going to every coroutine before
\* the next is taken; each cycle_set holds what inserting these dates in
\* that order gives; and when _gfs has read the sets out (and gfs_filter has
\* formed the union) every coroutine has received the whole batch.
C16_SameSequence ==
    /\ pc \in {"feeding", "selected", "returned", "raised"} =>
        /\ Len(sent) = Len(TheEngine.policies)
        /\ \A i \in DOMAIN sent : sent[i] = DatesSeq(DueTo(i))
    /\ pc = "feeding" =>
        \A i \in DOMAIN coroutines :
            coroutines[i][2] =
                InsertAll(GFS0_gfs_cycle(TheEngine.policies, coroutines[i][1]), sent[i])
    /\ (selected # None \/ filtered # None) =>
        \A i \in DOMAIN sent : sent[i] = DatesSeq(Len(dates))

\* C16 witness: a call for two cycles has returned after a batch of three
\* dates that did not come in ascending order.
C16_Witness ==
    /\ pc = "returned"
    /\ Len(TheEngine.policies) = 2
    /\ Len(dates) = 3
    /\ StampOf(dates[1]) > StampOf(dates[2])
    /\ StampOf(dates[2]) < StampOf(dates[3])
    /\ sent[1] = DatesSeq(3)
    /\ sent[2] = DatesSeq(3)

\* every timestamp of the model
AllTimestamps ==
    Timestamps \cup Range(DoctestDates)
    \cup {d.stamp : d \in {x \in DateStrings : Strptime(x, DATE_FORMAT).ok}}

\* the cycles whose key is non-decreasing in the timestamp
MonotoneCycles ==
    {c \in Range(PolicyCycles) :
        \A t, u \in AllTimestamps : t <= u => Cycle_key(c, t) <= Cycle_key(c, u)}

Monotone(c) == c \in MonotoneCycles

\* C19: when the key of every configured cycle is non-decreasing in the
\* timestamp and the batch is not empty, the greatest timestamp of the batch
\* is the last element of every per-cycle list and is in the set gfs_filter
\* returns.
C19_GreatestRetained ==
    (/\ pc \in {"selected", "returned"}
     /\ dates # <<>>
     /\ \A c \in DictKeys(TheEngine.policies) : Monotone(c))
    => /\ \A i \in DOMAIN selected[1] :
            /\ selected[1][i][2] # <<>>
            /\ selected[1][i][2][Len(selected[1][i][2])] = Out(MaxOf(Parsed))
       /\ pc = "returned" => Out(MaxOf(Parsed)) \in filtered[1]

\* C19 witness: a call for two cycles with non-decreasing keys, one of
\* capacity 1, has returned; the greatest of three different timestamps
\* came first.
C19_Witness ==
    /\ pc = "returned"
    /\ Len(TheEngine.policies) = 2
    /\ \A c \in DictKeys(TheEngine.policies) : Monotone(c)
    /\ \E c \in DictKeys(TheEngine.policies) : DictGet(TheEngine.policies, c) = 1
    /\ Len(dates) = 3
    /\ Cardinality(Parsed) = 3
    /\ StampOf(dates[1]) = MaxOf(Parsed)
    /\ Out(MaxOf(Parsed)) \in filtered[1]

\* what a call on a newly constructed engine with the same policies gives
\* for the batch: the lists of _gfs, the set of gfs_filter, or the error of
\* the first string that does not parse
FreshSelected ==
    LET lists == [i \in DOMAIN TheEngine.policies |->
                    <<TheEngine.policies[i][1],
                      Iter(InsertAll(GFS0_gfs_cycle(TheEngine.policies,
                                                    TheEngine.policies[i][1]),
                                     DatesSeq(Len(dates))))>>]
    IN  IF TheEngine.cls = "GFS" THEN GFS_selected(TheEngine.fmt[1], lists) ELSE lists

FreshFiltered == GFS0_union(FreshSelected)

FreshRaised ==
    Yielded(dates[CHOOSE i \in Unparsable : \A j \in Unparsable : i <= j]).raised

\* C12: whatever calls the engine served before, among them calls that a
\* parse error ended after dates had gone into the sets, a call starts with
\* empty sets and ends as on a newly constructed equal engine: the same
\* lists and the same set, or the same error.
C12_IndependentOfEarlierCalls ==
    /\ (pc = "feeding" /\ pos = 0) =>
        \A i \in DOMAIN coroutines :
            coroutines[i][2].list = <<>> /\ coroutines[i][2].keys = <<>>
    /\ pc \in {"selected", "returned"} =>
        /\ Unparsable = {}
        /\ selected[1] = FreshSelected
    /\ pc = "returned" => filtered[1] = FreshFiltered
    /\ pc = "raised" =>
        /\ Unparsable # {}
        /\ raised = FreshRaised

\* C12 witness: a call has returned on an engine whose call before was
\* ended by a parse error at its second item, after a date later than all
\* of this call's had gone into the sets.
C12_Witness ==
    /\ pc = "returned"
    /\ prevcall # None
    /\ dates # <<>>
    /\ Len(prevcall[1].dates) = 2
    /\ Yielded(prevcall[1].dates[1]).raised = None
    /\ Yielded(prevcall[1].dates[2]).raised # None
    /\ \A t \in Parsed : t < Yielded(prevcall[1].dates[1]).date
    /\ filtered[1] = {Out(t) : t \in Parsed}

\* C15: an engine that construction returned has at least one cycle and
\* every capacity it holds is at least 1, in every state from its
\* construction on, through the filtering calls made on it.
C15_EngineInvariant ==
    engine # None =>
        /\ cpc = "built"
        /\ TheEngine.policies # <<>>
        /\ \A i \in DOMAIN TheEngine.policies : TheEngine.policies[i][2] >= 1

\* C15 witness: an engine built from keywords (daily=0 overwritten by Day=2)
\* has served a call that raised and a call that returned.
C15_Witness ==
    /\ engine # None
    /\ cargs.kwargs = <<<<"daily", 0>>, <<"Day", 2>>>>
    /\ pc = "returned"
    /\ prevcall # None
    /\ \E i \in DOMAIN prevcall[1].dates : Yielded(prevcall[1].dates[i]).raised # None

====
